---- MODULE Spec2Model ----
(***************************************************************************)
(* Model of the HTTP/1 client codec (actix-http/src/h1/client.rs) and of   *)
(* the HttpMessageBody future (src/types/payload.rs).                      *)
(*                                                                         *)
(* SpecCodec : one ClientCodec / ClientPayloadCodec value driven by every  *)
(*             sequence of encode, decode, payload-decode and conversion   *)
(*             calls.  What the MessageDecoder, the PayloadDecoder and the *)
(*             MessageEncoder return (h1/decoder.rs, h1/encoder.rs) is an  *)
(*             input of the call, drawn from every value of its type.      *)
(* SpecBody  : one request handed to HttpMessageBody::new, then limit()    *)
(*             and poll() calls.                                           *)
(***************************************************************************)
EXTENDS Integers, Sequences, FiniteSets, TLC

VARIABLES
    \* ---- build configuration -------------------------------------------
    debug_assertions, \* cfg(debug_assertions): debug_assert! is compiled in
    \* ---- ClientCodecInner (client.rs:35-45) -------------------------------
    config,           \* inner.config: [keep_alive_enabled : BOOLEAN]
    codec,            \* which wrapper owns inner: "ClientCodec" | "ClientPayloadCodec"
    flags,            \* inner.flags, a subset of Flags
    payload,          \* inner.payload: Option<PayloadDecoder>, <<>> is None
    version,          \* inner.version
    ctype,            \* inner.ctype
    \* ---- history of the codec --------------------------------------------
    last,             \* the most recent call, its inputs, result and pre-state
    sent_method,      \* method of the most recently encoded request head
    resp_to_head,     \* the most recently decoded head was decoded while
                      \* the most recently encoded request was a HEAD
    upgraded,         \* some decoded head resolved ctype to Upgrade
    eofs,             \* end-of-body results yielded since the last decoded
                      \* head (counted up to 2)
    \* ---- request and HttpMessageBody (payload.rs:304-313) -----------------
    pc,               \* "req" before HttpMessageBody::new, "fut", "done"
    content_length,   \* the request's Content-Length header, <<>> if absent
    req_payload,      \* the request's dev::Payload slot (items still in it)
    body0,            \* the items the request's payload held at the start
    limit,            \* HttpMessageBody.limit
    length,           \* HttpMessageBody.length: Option<usize>
    err,              \* HttpMessageBody.err: Option<PayloadError>
    buf,              \* HttpMessageBody.buf
    stream,           \* HttpMessageBody.stream (items not yet yielded)
    limit_set,        \* limit() has been called on the future
    stream_polled,    \* stream.poll_next has been called at least once
    polled,           \* poll() has been called at least once
    output,           \* what the last poll() returned
    \* ---- request data and extractors (payload.rs:98-219) ------------------
    content_type,     \* the request's Content-Type header, <<>> if absent
    app_data,         \* app data of type PayloadConfig, <<>> if none
    data,             \* app data of type Data<PayloadConfig>, <<>> if none
    extractions,      \* number of from_request calls made on the request
    ext_kind,         \* the extractor of the latest call: Payload|Bytes|String
    ext_cfg,          \* cfg of the latest Bytes / String call, <<>> if none
    mime_check,       \* what cfg.check_mimetype(req) returned in that call
    taken,            \* the streams payload.take() has handed out, in order
    ext_out,          \* what the latest extractor future returned
    \* ---- H1ServiceHandler and OneRequestService (service.rs) --------------
    on_connect,       \* H1ServiceHandler.on_connect is Some
    on_connect_ext,   \* H1ServiceHandler.on_connect_ext is Some
    conns,            \* per accepted connection, what call() did, in order
    or_pc,            \* OneRequestService::call future: idle|called|done
    or_io,            \* frames the Framed stream has not yielded yet
    or_io0,           \* the frames of the stream at the start
    or_out,           \* what the call future returned at its last poll
    \* ---- H1Service, H1ServiceResponse, poll_ready (service.rs) ------------
    upgrade_factory,  \* H1Service.upgrade is Some
    resp_pc,          \* factory | polling | resolved
    resp,             \* H1ServiceResponse: fut_ex, fut_upg, expect, upgrade
    resp_polls,       \* polls of the H1ServiceResponse so far
    first_polls,      \* the init futures in the order of their first poll
    resolved,         \* per init future: "-" or what it resolved to
    repolled,         \* init futures polled again after they returned Ready
    resp_out,         \* what the latest poll of the response returned
    handler,          \* the H1ServiceHandler built, if any
    pr                \* the latest H1ServiceHandler::poll_ready call

codec_vars == <<debug_assertions, config, codec, flags, payload, version,
                ctype, last, sent_method, resp_to_head, upgraded, eofs>>
body_vars  == <<pc, content_length, req_payload, body0, limit, length, err,
                buf, stream, limit_set, polled, stream_polled, output>>
extract_vars == <<content_type, app_data, data, extractions, ext_kind,
                  ext_cfg, mime_check, taken, ext_out>>
service_vars == <<on_connect, on_connect_ext, conns, or_pc, or_io, or_io0,
                  or_out>>
factory_vars == <<upgrade_factory, resp_pc, resp, resp_polls, first_polls,
                  resolved, repolled, resp_out, handler, pr>>
vars == <<codec_vars, body_vars, extract_vars, service_vars, factory_vars>>

----------------------------------------------------------------------------
(* Types of the codec                                                      *)

HEAD              == "HEAD"
KEEPALIVE_ENABLED == "KEEPALIVE_ENABLED"
STREAM            == "STREAM"
Flags             == {HEAD, KEEPALIVE_ENABLED, STREAM}

ConnectionType == {"Close", "KeepAlive", "Upgrade"}
Version        == {"HTTP_10", "HTTP_11"}
Method         == {"GET", "HEAD", "POST"}

\* framing modes of a PayloadDecoder (h1/decoder.rs, spec section 4.1)
PayloadDecoder == {"length", "chunked", "eof"}

\* PayloadType returned by MessageDecoder::decode next to the head
PayloadType ==
    {[tag |-> "None", pl |-> "-"]}
      \cup [tag : {"Payload", "Stream"}, pl : PayloadDecoder]

\* Option<ConnectionType> returned by ResponseHead::ctype()
OptConnectionType == {<<>>} \cup {<<c>> : c \in ConnectionType}

NoCall ==
    [op |-> "new", res |-> "-", hctype |-> <<>>, hversion |-> "-",
     ptype |-> "-", method |-> "-", rctype |-> "-",
     derr |-> "-", rerr |-> "-",
     pre_ctype |-> "Close", pre_payload |-> <<>>, pre_flags |-> {},
     pre_upgraded |-> FALSE]

----------------------------------------------------------------------------
(* ClientCodec::new                                                        *)

\* ClientCodec_new that starts from a keep-alive connection
ClientCodec_new_StartsKeepAlive(cfg) ==
    [config  |-> cfg,
     flags   |-> IF cfg.keep_alive_enabled THEN {KEEPALIVE_ENABLED} ELSE {},
     payload |-> <<>>,
     version |-> "HTTP_11",
     ctype   |-> "KeepAlive"]

ClientCodec_new(cfg) ==
    [config  |-> cfg,
     flags   |-> IF cfg.keep_alive_enabled THEN {KEEPALIVE_ENABLED} ELSE {},
     payload |-> <<>>,
     version |-> "HTTP_11",
     ctype   |-> "Close"]

upgrade   == ctype = "Upgrade"
keepalive == ctype = "KeepAlive"

message_type ==
    IF STREAM \in flags THEN "Stream"
    ELSE IF payload = <<>> THEN "None"
    ELSE "Payload"

InitCodec ==
    /\ debug_assertions \in BOOLEAN
    /\ \E cfg \in [keep_alive_enabled : BOOLEAN] :
         LET c == ClientCodec_new(cfg) IN
           /\ config = c.config
           /\ flags = c.flags
           /\ payload = c.payload
           /\ version = c.version
           /\ ctype = c.ctype
    /\ codec = "ClientCodec"
    /\ last = NoCall
    /\ sent_method = "-"
    /\ resp_to_head = FALSE
    /\ upgraded = FALSE
    /\ eofs = 0

Alive == last.res # "panic"

Call(op, res, hctype, hversion, ptype, method, rctype) ==
    [op |-> op, res |-> res, hctype |-> hctype, hversion |-> hversion,
     ptype |-> ptype, method |-> method, rctype |-> rctype,
     derr |-> "-", rerr |-> "-",
     pre_ctype |-> ctype, pre_payload |-> payload, pre_flags |-> flags,
     pre_upgraded |-> upgraded]

----------------------------------------------------------------------------
(* <ClientCodec as Encoder>::encode                                        *)

\* EncodeFlags that inserts HEAD and never removes it
EncodeFlags_OnlySets(fl, method) ==
    IF method = "HEAD" THEN fl \cup {HEAD} ELSE fl

\* flags.set(Flags::HEAD, method == Method::HEAD)
EncodeFlags(fl, method) ==
    IF method = "HEAD" THEN fl \cup {HEAD} ELSE fl \ {HEAD}

\* EncodeCtype with the KEEPALIVE_ENABLED test left out
EncodeCtype_IgnoresConfig(fl, head_ctype) ==
    head_ctype

\* the connection status match of encode
EncodeCtype(fl, head_ctype) ==
    CASE head_ctype = "KeepAlive" ->
           IF KEEPALIVE_ENABLED \in fl THEN "KeepAlive" ELSE "Close"
      [] head_ctype = "Upgrade" -> "Upgrade"
      [] head_ctype = "Close" -> "Close"

\* Message::Item((head, length)); r is what MessageEncoder::encode returns
EncodeItem ==
    /\ Alive
    /\ codec = "ClientCodec"
    /\ \E method \in Method, v \in Version, hc \in ConnectionType,
          r \in {"Ok", "Err"} :
         /\ version' = v
         /\ flags' = EncodeFlags(flags, method)
         /\ ctype' = EncodeCtype(flags', hc)
         /\ sent_method' = method
         /\ last' = Call("encode", r, <<>>, v, "-", method, hc)
    /\ UNCHANGED <<debug_assertions, config, codec, payload, resp_to_head,
                   upgraded, eofs>>
    /\ UNCHANGED <<body_vars, extract_vars, service_vars, factory_vars>>

\* Message::Chunk(Some(bytes)) and Message::Chunk(None)
EncodeChunk ==
    /\ Alive
    /\ codec = "ClientCodec"
    /\ \E op \in {"encode_chunk", "encode_eof"}, r \in {"Ok", "Err"} :
         last' = Call(op, r, <<>>, "-", "-", "-", "-")
    /\ UNCHANGED <<debug_assertions, config, codec, flags, payload, version,
                   ctype, sent_method, resp_to_head, upgraded,
                   eofs>>
    /\ UNCHANGED <<body_vars, extract_vars, service_vars, factory_vars>>

----------------------------------------------------------------------------
(* <ClientCodec as Decoder>::decode                                        *)

\* DecodeCtype with the test on the wrong variant: the peer's close is
\* dropped instead of its keep-alive
DecodeCtype_DropsClose(cur, hctype) ==
    IF hctype # <<>>
    THEN IF hctype[1] = "Close" THEN cur ELSE hctype[1]
    ELSE cur

\* DecodeCtype that only ever takes the peer's close
DecodeCtype_OnlyClose(cur, hctype) ==
    IF hctype # <<>>
    THEN IF hctype[1] = "Close" THEN "Close" ELSE cur
    ELSE cur

\* DecodeCtype that takes whatever the peer sent
DecodeCtype_TakesPeer(cur, hctype) ==
    IF hctype # <<>> THEN hctype[1] ELSE cur

\* "do not use peer's keep-alive"
DecodeCtype(cur, hctype) ==
    IF hctype # <<>>
    THEN IF hctype[1] = "KeepAlive" THEN cur ELSE hctype[1]
    ELSE cur

\* DecodePayload without the HEAD test
DecodePayload_IgnoresHead(fl, cur, pt) ==
    IF pt.tag = "None" THEN <<>> ELSE <<pt.pl>>

\* the payload installed for a decoded head
DecodePayload(fl, cur, pt) ==
    IF HEAD \notin fl
    THEN IF pt.tag = "None" THEN <<>> ELSE <<pt.pl>>
    ELSE <<>>

\* DecodeFlags that assigns STREAM instead of inserting it
DecodeFlags_Overwrites(fl, pt) ==
    IF HEAD \notin fl /\ pt.tag = "Stream" THEN {STREAM} ELSE fl

\* flags.insert(Flags::STREAM) for a streaming payload
DecodeFlags(fl, pt) ==
    IF HEAD \notin fl /\ pt.tag = "Stream" THEN fl \cup {STREAM} ELSE fl

\* debug_assert!(!self.inner.payload.is_some(), "Payload decoder is set")
DecodeAsserts(dbg, pl) == dbg /\ pl # <<>>

DecodePanic ==
    /\ Alive
    /\ codec = "ClientCodec"
    /\ DecodeAsserts(debug_assertions, payload)
    /\ last' = Call("decode", "panic", <<>>, "-", "-", "-", "-")
    /\ UNCHANGED <<debug_assertions, config, codec, flags, payload, version,
                   ctype, sent_method, resp_to_head, upgraded,
                   eofs>>
    /\ UNCHANGED <<body_vars, extract_vars, service_vars, factory_vars>>

\* the errors MessageDecoder::decode can return
ParseErrors == {"Header", "TooLarge", "Incomplete"}

\* the ? operator on a Result<_, ParseError> in a function that returns
\* ParseError: From<ParseError> for ParseError
question_mark(e) == e

\* DecodeError that drops the connection to Close before it returns
DecodeError_ResetsCtype ==
    /\ Alive
    /\ codec = "ClientCodec"
    /\ ~DecodeAsserts(debug_assertions, payload)
    /\ \E e \in ParseErrors :
         last' = [Call("decode", "error", <<>>, "-", "-", "-", "-")
                    EXCEPT !.derr = e, !.rerr = question_mark(e)]
    /\ ctype' = "Close"
    /\ UNCHANGED <<debug_assertions, config, codec, flags, payload, version,
                   sent_method, resp_to_head, upgraded, eofs>>
    /\ UNCHANGED <<body_vars, extract_vars, service_vars, factory_vars>>

\* self.inner.decoder.decode(src)? is Err(ParseError)
DecodeError ==
    /\ Alive
    /\ codec = "ClientCodec"
    /\ ~DecodeAsserts(debug_assertions, payload)
    /\ \E e \in ParseErrors :
         last' = [Call("decode", "error", <<>>, "-", "-", "-", "-")
                    EXCEPT !.derr = e, !.rerr = question_mark(e)]
    /\ UNCHANGED <<debug_assertions, config, codec, flags, payload, version,
                   ctype, sent_method, resp_to_head, upgraded,
                   eofs>>
    /\ UNCHANGED <<body_vars, extract_vars, service_vars, factory_vars>>

\* DecodeIncomplete that clears the payload decoder before it looks at the
\* result of the message decoder
DecodeIncomplete_ClearsPayload ==
    /\ Alive
    /\ codec = "ClientCodec"
    /\ ~DecodeAsserts(debug_assertions, payload)
    /\ payload' = <<>>
    /\ last' = Call("decode", "none", <<>>, "-", "-", "-", "-")
    /\ UNCHANGED <<debug_assertions, config, codec, flags, version, ctype,
                   sent_method, resp_to_head, upgraded, eofs>>
    /\ UNCHANGED <<body_vars, extract_vars, service_vars, factory_vars>>

\* self.inner.decoder.decode(src)? is Ok(None): incomplete head
DecodeIncomplete ==
    /\ Alive
    /\ codec = "ClientCodec"
    /\ ~DecodeAsserts(debug_assertions, payload)
    /\ last' = Call("decode", "none", <<>>, "-", "-", "-", "-")
    /\ UNCHANGED <<debug_assertions, config, codec, flags, payload, version,
                   ctype, sent_method, resp_to_head, upgraded,
                   eofs>>
    /\ UNCHANGED <<body_vars, extract_vars, service_vars, factory_vars>>

\* self.inner.decoder.decode(src)? is Ok(Some((req, payload)))
DecodeHead ==
    /\ Alive
    /\ codec = "ClientCodec"
    /\ ~DecodeAsserts(debug_assertions, payload)
    /\ \E hc \in OptConnectionType, hv \in Version, pt \in PayloadType :
         /\ ctype' = DecodeCtype(ctype, hc)
         /\ payload' = DecodePayload(flags, payload, pt)
         /\ flags' = DecodeFlags(flags, pt)
         /\ last' = Call("decode", "head", hc, hv, pt.tag, "-", "-")
    /\ resp_to_head' = (sent_method = "HEAD")
    /\ upgraded' = (upgraded \/ (last'.hctype = <<"Upgrade">>))
    /\ eofs' = 0
    /\ UNCHANGED <<debug_assertions, config, codec, version, sent_method>>
    /\ UNCHANGED <<body_vars, extract_vars, service_vars, factory_vars>>

----------------------------------------------------------------------------
(* <ClientPayloadCodec as Decoder>::decode                                 *)

\* debug_assert!(payload.is_some()) and payload.as_mut().unwrap(): with no
\* payload decoder the call panics in every build
PayloadDecodePanic ==
    /\ Alive
    /\ codec = "ClientPayloadCodec"
    /\ payload = <<>>
    /\ last' = Call("payload_decode", "panic", <<>>, "-", "-", "-", "-")
    /\ UNCHANGED <<debug_assertions, config, codec, flags, payload, version,
                   ctype, sent_method, resp_to_head, upgraded,
                   eofs>>
    /\ UNCHANGED <<body_vars, extract_vars, service_vars, factory_vars>>

\* PayloadAfter that leaves the decoder in place at end-of-body
PayloadAfter_KeepsAtEof(pl, item) ==
    pl

\* the payload left after PayloadDecoder::decode returned item
PayloadAfter(pl, item) ==
    IF item = "eof" THEN <<>> ELSE pl

\* item is what PayloadDecoder::decode returned: Some(Chunk), Some(Eof),
\* None or Err(PayloadError)
PayloadDecode ==
    /\ Alive
    /\ codec = "ClientPayloadCodec"
    /\ payload # <<>>
    /\ \E item \in {"chunk", "eof", "none", "error"} :
         /\ payload' = PayloadAfter(payload, item)
         /\ last' = Call("payload_decode", item, <<>>, "-", "-", "-", "-")
    /\ eofs' = IF last'.res = "eof" /\ eofs < 2 THEN eofs + 1 ELSE eofs
    /\ UNCHANGED <<debug_assertions, config, codec, flags, version, ctype,
                   sent_method, resp_to_head, upgraded>>
    /\ UNCHANGED <<body_vars, extract_vars, service_vars, factory_vars>>

----------------------------------------------------------------------------
(* into_payload_codec / into_message_codec                                 *)

into_payload_codec ==
    /\ Alive
    /\ codec = "ClientCodec"
    /\ codec' = "ClientPayloadCodec"
    /\ last' = Call("into_payload_codec", "-", <<>>, "-", "-", "-", "-")
    /\ UNCHANGED <<debug_assertions, config, flags, payload, version, ctype,
                   sent_method, resp_to_head, upgraded,
                   eofs>>
    /\ UNCHANGED <<body_vars, extract_vars, service_vars, factory_vars>>

into_message_codec ==
    /\ Alive
    /\ codec = "ClientPayloadCodec"
    /\ codec' = "ClientCodec"
    /\ last' = Call("into_message_codec", "-", <<>>, "-", "-", "-", "-")
    /\ UNCHANGED <<debug_assertions, config, flags, payload, version, ctype,
                   sent_method, resp_to_head, upgraded,
                   eofs>>
    /\ UNCHANGED <<body_vars, extract_vars, service_vars, factory_vars>>

----------------------------------------------------------------------------
(* the request side is idle in SpecCodec                                   *)

IdleBody ==
    /\ pc = "idle"
    /\ content_length = <<>>
    /\ req_payload = <<>>
    /\ body0 = <<>>
    /\ limit = 0
    /\ length = <<>>
    /\ err = <<>>
    /\ buf = <<>>
    /\ stream = <<>>
    /\ limit_set = FALSE
    /\ polled = FALSE
    /\ stream_polled = FALSE
    /\ output = [kind |-> "Pending", err |-> "-", body |-> <<>>]

\* no extractor runs in SpecCodec and SpecBody
IdleExtract ==
    /\ content_type = <<>>
    /\ app_data = <<>>
    /\ data = <<>>
    /\ extractions = 0
    /\ ext_kind = "-"
    /\ ext_cfg = <<>>
    /\ mime_check = "-"
    /\ taken = <<>>
    /\ ext_out = [kind |-> "-", err |-> "-", body |-> <<>>]

\* no service runs in SpecCodec, SpecBody and SpecExtract
IdleService ==
    /\ on_connect = FALSE
    /\ on_connect_ext = FALSE
    /\ conns = <<>>
    /\ or_pc = "idle"
    /\ or_io = <<>>
    /\ or_io0 = <<>>
    /\ or_out = [kind |-> "-", err |-> "-"]

InitFuts == {"expect", "upgrade", "main"}

NoPollReady == [upg |-> FALSE, e |-> "-", s |-> "-", u |-> "-",
                polled |-> <<>>, out |-> "-"]

\* no service factory runs outside SpecFactory
IdleFactory ==
    /\ upgrade_factory = FALSE
    /\ resp_pc = "factory"
    /\ resp = [fut_ex |-> FALSE, fut_upg |-> FALSE, expect |-> FALSE,
               upgrade |-> FALSE]
    /\ resp_polls = 0
    /\ first_polls = <<>>
    /\ resolved = [f \in InitFuts |-> "-"]
    /\ repolled = {}
    /\ resp_out = "-"
    /\ handler = <<>>
    /\ pr = NoPollReady

NextCodec ==
    \/ EncodeItem
    \/ EncodeChunk
    \/ DecodePanic
    \/ DecodeError
    \/ DecodeIncomplete
    \/ DecodeHead
    \/ PayloadDecodePanic
    \/ PayloadDecode
    \/ into_payload_codec
    \/ into_message_codec

CodecInit ==
    InitCodec /\ IdleBody /\ IdleExtract /\ IdleService /\ IdleFactory

SpecCodec == CodecInit /\ [][NextCodec]_vars

----------------------------------------------------------------------------
(* Request headers and payload (payload.rs)                                *)

DEFAULT_CONFIG_LIMIT == 262144

\* longest payload stream, in items
MaxChunks == 3

\* sizes of the chunks a payload stream yields
ChunkLens == {0, 1, 4, 262144}

\* values handed to HttpMessageBody::limit
LimitValues == {5, 262144, 300000}

\* Content-Length header values, as sequences of characters; "xFF" stands
\* for a byte that is not visible ASCII
ContentLengthValues ==
    { <<"x", "x", "x", "x">>,
      <<"-", "1">>,
      <<"xFF">>,
      <<>>,
      <<"+", "5">>,
      <<"5">>,
      <<"6">>,
      <<"2", "6", "2", "1", "4", "4">>,
      <<"2", "6", "2", "1", "4", "5">>,
      <<"3", "0", "0", "0", "0", "0">>,
      <<"1", "0", "0", "0", "0", "0", "0">> }

Digits == {"0", "1", "2", "3", "4", "5", "6", "7", "8", "9"}

DigitValue(c) ==
    CASE c = "0" -> 0 [] c = "1" -> 1 [] c = "2" -> 2 [] c = "3" -> 3
      [] c = "4" -> 4 [] c = "5" -> 5 [] c = "6" -> 6 [] c = "7" -> 7
      [] c = "8" -> 8 [] c = "9" -> 9

\* HeaderValue::to_str: Ok(s) as <<s>> when every byte is visible ASCII,
\* Err as <<>>
to_str(v) ==
    IF \E i \in 1..Len(v) : v[i] = "xFF" THEN <<>> ELSE <<v>>

RECURSIVE DecimalValue(_)
DecimalValue(ds) ==
    IF ds = <<>> THEN 0
    ELSE 10 * DecimalValue(SubSeq(ds, 1, Len(ds) - 1)) + DigitValue(ds[Len(ds)])

\* str::parse::<usize>: an optional "+" then at least one digit; Ok(n) as
\* <<n>>, Err as <<>>.  (No value of ContentLengthValues reaches the
\* overflow error of parse.)
parse_usize(s) ==
    LET ds == IF s # <<>> /\ s[1] = "+" THEN Tail(s) ELSE s IN
      IF ds # <<>> /\ \A i \in 1..Len(ds) : ds[i] \in Digits
      THEN <<DecimalValue(ds)>>
      ELSE <<>>

\* a payload stream: items Some(Ok(chunk)) and Some(Err(e)), then None.
\* A chunk is a run of len bytes named by its position id in the stream.
StreamOf(kinds) ==
    [i \in 1..Len(kinds) |->
       [ok |-> kinds[i] >= 0, id |-> i,
        len |-> IF kinds[i] >= 0 THEN kinds[i] ELSE 0]]

Streams ==
    {StreamOf(k) : k \in UNION {[1..n -> ChunkLens \cup {-1}] : n \in 0..MaxChunks}}

Pending == [kind |-> "Pending", err |-> "-", body |-> <<>>]
ReadyOk(bytes) == [kind |-> "Ok", err |-> "-", body |-> bytes]
ReadyErr(e) == [kind |-> "Err", err |-> e, body |-> <<>>]

RECURSIVE BytesLen(_)
BytesLen(b) ==
    IF b = <<>> THEN 0 ELSE b[1].len + BytesLen(Tail(b))

\* BytesMut::extend_from_slice: the bytes of the chunk after those of b
extend_from_slice(b, chunk) ==
    IF chunk.len = 0 THEN b ELSE Append(b, [id |-> chunk.id, len |-> chunk.len])

----------------------------------------------------------------------------
(* HttpMessageBody::new                                                    *)

\* take that hands the stream out and leaves it in the slot as well
take_Keeps(pl) == [out |-> pl, left |-> pl]

\* dev::Payload::take: the stream goes out, Payload::None stays
take(pl) == [out |-> pl, left |-> <<>>]

\* the guard Ok(l) if l > DEFAULT_CONFIG_LIMIT
NewOverflows(l) == l > DEFAULT_CONFIG_LIMIT

\* HttpMessageBody_new that treats a Content-Length it cannot read as absent
HttpMessageBody_new_SkipsBadLength(cl, pl) ==
    LET s == IF cl = <<>> THEN <<>> ELSE to_str(cl[1])
        n == IF s = <<>> THEN <<>> ELSE parse_usize(s[1])
    IN [limit  |-> DEFAULT_CONFIG_LIMIT,
        length |-> IF n # <<>> /\ ~NewOverflows(n[1]) THEN n ELSE <<>>,
        err    |-> IF n # <<>> /\ NewOverflows(n[1])
                   THEN <<"Overflow">> ELSE <<>>,
        buf    |-> <<>>,
        stream |-> pl]

HttpMessageBody_new(cl, pl) ==
    LET s == IF cl = <<>> THEN <<>> ELSE to_str(cl[1])
        n == IF s = <<>> THEN <<>> ELSE parse_usize(s[1])
    IN [limit  |-> DEFAULT_CONFIG_LIMIT,
        length |-> IF n # <<>> /\ ~NewOverflows(n[1]) THEN n ELSE <<>>,
        err    |-> CASE cl = <<>> -> <<>>
                     [] cl # <<>> /\ n = <<>> -> <<"UnknownLength">>
                     [] cl # <<>> /\ n # <<>> ->
                          IF NewOverflows(n[1]) THEN <<"Overflow">> ELSE <<>>,
        buf    |-> <<>>,
        stream |-> pl]

New ==
    /\ pc = "req"
    /\ LET t == take(req_payload)
           b == HttpMessageBody_new(content_length, t.out)
       IN
         /\ limit' = b.limit
         /\ length' = b.length
         /\ err' = b.err
         /\ buf' = b.buf
         /\ stream' = b.stream
         /\ req_payload' = t.left
    /\ pc' = "fut"
    /\ UNCHANGED <<content_length, body0, limit_set, polled, stream_polled,
                   output>>
    /\ UNCHANGED <<codec_vars, extract_vars, service_vars, factory_vars>>

----------------------------------------------------------------------------
(* HttpMessageBody::limit                                                  *)

\* LimitOverflows with the test left out
LimitOverflows_Never(l, lim) == FALSE

\* the test l > limit
LimitOverflows(l, lim) == l > lim

HttpMessageBody_limit(len, e, lim) ==
    [err   |-> IF len # <<>> /\ LimitOverflows(len[1], lim)
               THEN <<"Overflow">> ELSE e,
     limit |-> lim]

\* limit(mut self, ..) takes the future by value: it is called on the
\* future as built, before it is awaited
Limit ==
    /\ pc = "fut"
    /\ ~polled
    /\ \E n \in LimitValues :
         LET b == HttpMessageBody_limit(length, err, n) IN
           /\ err' = b.err
           /\ limit' = b.limit
    /\ limit_set' = TRUE
    /\ UNCHANGED <<pc, content_length, req_payload, body0, length, buf,
                   stream, polled, stream_polled, output>>
    /\ UNCHANGED <<codec_vars, extract_vars, service_vars, factory_vars>>

----------------------------------------------------------------------------
(* <HttpMessageBody as Future>::poll                                       *)

\* Exceeds that also refuses a body of exactly limit bytes
Exceeds_AtLimit(buflen, chunklen, lim) == buflen + chunklen >= lim

\* the test this.buf.len() + chunk.len() > this.limit
Exceeds(buflen, chunklen, lim) == buflen + chunklen > lim

\* the loop of poll: n is the number of items the stream has ready in this
\* call, the end of the stream counting as one more item
RECURSIVE poll_loop(_, _, _, _)
poll_loop(b, items, n, lim) ==
    IF n = 0
    THEN [out |-> Pending, buf |-> b, stream |-> items]
    ELSE IF items = <<>>
    THEN [out |-> ReadyOk(b), buf |-> <<>>, stream |-> items]
    ELSE LET chunk == Head(items) IN
           IF ~chunk.ok
           THEN [out |-> ReadyErr("Incomplete"), buf |-> b,
                 stream |-> Tail(items)]
           ELSE IF Exceeds(BytesLen(b), chunk.len, lim)
           THEN [out |-> ReadyErr("Overflow"), buf |-> b,
                 stream |-> Tail(items)]
           ELSE poll_loop(extend_from_slice(b, chunk), Tail(items), n - 1, lim)

\* if let Some(e) = this.err.take() { return Poll::Ready(Err(e)) }
PollErr ==
    /\ pc = "fut"
    /\ err # <<>>
    /\ output' = ReadyErr(err[1])
    /\ err' = <<>>
    /\ pc' = "done"
    /\ polled' = TRUE
    /\ UNCHANGED <<content_length, req_payload, body0, limit, length, buf,
                   stream, limit_set, stream_polled>>
    /\ UNCHANGED <<codec_vars, extract_vars, service_vars, factory_vars>>

PollStream ==
    /\ pc = "fut"
    /\ err = <<>>
    /\ \E n \in 0..(Len(stream) + 1) :
         LET r == poll_loop(buf, stream, n, limit) IN
           /\ output' = r.out
           /\ buf' = r.buf
           /\ stream' = r.stream
           /\ pc' = IF r.out.kind = "Pending" THEN "fut" ELSE "done"
    /\ polled' = TRUE
    /\ stream_polled' = TRUE
    /\ UNCHANGED <<content_length, req_payload, body0, limit, length, err,
                   limit_set>>
    /\ UNCHANGED <<codec_vars, extract_vars, service_vars, factory_vars>>

----------------------------------------------------------------------------
(* the request as it reaches the extractor                                 *)

InitBody ==
    /\ pc = "req"
    /\ content_length \in {<<>>} \cup {<<v>> : v \in ContentLengthValues}
    /\ body0 \in Streams
    /\ req_payload = body0
    /\ limit = 0
    /\ length = <<>>
    /\ err = <<>>
    /\ buf = <<>>
    /\ stream = <<>>
    /\ limit_set = FALSE
    /\ polled = FALSE
    /\ stream_polled = FALSE
    /\ output = Pending

\* the codec is not used in SpecBody
IdleCodec ==
    /\ debug_assertions = FALSE
    /\ config = [keep_alive_enabled |-> FALSE]
    /\ codec = "ClientCodec"
    /\ flags = {}
    /\ payload = <<>>
    /\ version = "HTTP_11"
    /\ ctype = "Close"
    /\ last = NoCall
    /\ sent_method = "-"
    /\ resp_to_head = FALSE
    /\ upgraded = FALSE
    /\ eofs = 0

NextBody ==
    \/ New
    \/ Limit
    \/ PollErr
    \/ PollStream

BodyInit ==
    InitBody /\ IdleCodec /\ IdleExtract /\ IdleService /\ IdleFactory

SpecBody == BodyInit /\ [][NextBody]_vars

----------------------------------------------------------------------------
(* PayloadConfig (payload.rs:226-295)                                      *)

\* most from_request calls made on one request
MaxExtractions == 2

DEFAULT_CONFIG == [limit |-> DEFAULT_CONFIG_LIMIT, mimetype |-> <<>>]

\* PayloadConfig::new(limit), .limit(limit), .mimetype(mt)
PayloadConfig_new(lim) == [DEFAULT_CONFIG EXCEPT !.limit = lim]
PayloadConfig_limit(cfg, lim) == [cfg EXCEPT !.limit = lim]
PayloadConfig_mimetype(cfg, mt) == [cfg EXCEPT !.mimetype = <<mt>>]

\* the configurations an application registers
ConfigValues ==
    { PayloadConfig_new(5),
      PayloadConfig_limit(DEFAULT_CONFIG, 300000),
      PayloadConfig_mimetype(DEFAULT_CONFIG, "application/json"),
      PayloadConfig_mimetype(PayloadConfig_new(5), "application/json") }

\* Content-Type header values of a request; "xFF" is a value that is not
\* visible ASCII
ContentTypeValues ==
    { "application/json", "Application/JSON",
      "application/x-www-form-urlencoded", "garbage", "xFF" }

\* HttpMessage::mime_type of the request: Ok(None) without the header,
\* Ok(Some(mime)) when the value parses (type and subtype compare without
\* regard to case), Err otherwise
mime_type(ct) ==
    IF ct = <<>> THEN [ok |-> TRUE, mime |-> <<>>]
    ELSE CASE ct[1] = "application/json" ->
                [ok |-> TRUE, mime |-> <<"application/json">>]
           [] ct[1] = "Application/JSON" ->
                [ok |-> TRUE, mime |-> <<"application/json">>]
           [] ct[1] = "application/x-www-form-urlencoded" ->
                [ok |-> TRUE, mime |-> <<"application/x-www-form-urlencoded">>]
           [] OTHER -> [ok |-> FALSE, mime |-> <<>>]

\* check_mimetype that only compares when the request has a Content-Type
check_mimetype_AllowsMissing(cfg, ct) ==
    IF cfg.mimetype = <<>> THEN "Ok"
    ELSE LET r == mime_type(ct) IN
           IF r.ok /\ r.mime # <<>>
           THEN IF cfg.mimetype[1] # r.mime[1]
                THEN "Unexpected Content-Type" ELSE "Ok"
           ELSE IF r.ok THEN "Ok"
           ELSE "ContentTypeError"

\* PayloadConfig::check_mimetype: "Ok" or the error it returns
check_mimetype(cfg, ct) ==
    IF cfg.mimetype = <<>> THEN "Ok"
    ELSE LET r == mime_type(ct) IN
           IF r.ok /\ r.mime # <<>>
           THEN IF cfg.mimetype[1] # r.mime[1]
                THEN "Unexpected Content-Type" ELSE "Ok"
           ELSE IF r.ok THEN "Content-Type is expected"
           ELSE "ContentTypeError"

\* from_req that looks at Data<PayloadConfig> first
from_req_DataFirst(ad, d) ==
    IF d # <<>> THEN d[1]
    ELSE IF ad # <<>> THEN ad[1]
    ELSE DEFAULT_CONFIG

\* PayloadConfig::from_req
from_req(ad, d) ==
    IF ad # <<>> THEN ad[1]
    ELSE IF d # <<>> THEN d[1]
    ELSE DEFAULT_CONFIG

----------------------------------------------------------------------------
(* The Payload, Bytes and String extractors (payload.rs:98-219)            *)

NoOutput == [kind |-> "-", err |-> "-", body |-> <<>>]

\* <Payload as FromRequest>::from_request
PayloadFromRequest ==
    /\ pc = "req"
    /\ extractions < MaxExtractions
    /\ extractions' = extractions + 1
    /\ ext_kind' = "Payload"
    /\ LET t == take(req_payload) IN
         /\ taken' = Append(taken, t.out)
         /\ req_payload' = t.left
    /\ ext_out' = ReadyOk(<<>>)
    /\ UNCHANGED <<pc, content_length, body0, limit, length, err, buf, stream,
                   limit_set, polled, stream_polled, output>>
    /\ UNCHANGED <<content_type, app_data, data, ext_cfg, mime_check>>
    /\ UNCHANGED <<codec_vars, service_vars, factory_vars>>

\* what the Bytes / String future returns once the body future is Ready:
\* the String extractor decodes the bytes, which fails when they are not
\* text of the request's charset
Extracted(kind, out, text_ok) ==
    IF out.kind = "Ok" /\ kind = "String" /\ ~text_ok
    THEN ReadyErr("Can not decode body")
    ELSE out

\* EarlyError that lets a failed mime type check through
EarlyError_IgnoresMimetype(m, kind, enc_ok) ==
    IF kind = "String" /\ ~enc_ok THEN <<"ContentTypeError">>
    ELSE <<>>

\* the error the async block returns through ? before it builds the
\* HttpMessageBody: cfg.check_mimetype(req)?, then for String
\* req.encoding()?; <<>> when both pass
EarlyError(m, kind, enc_ok) ==
    IF m # "Ok" THEN <<m>>
    ELSE IF kind = "String" /\ ~enc_ok THEN <<"ContentTypeError">>
    ELSE <<>>

\* first poll of the async block of <Bytes as FromRequest>::from_request
\* and <String as FromRequest>::from_request.  enc_ok is whether
\* req.encoding() returns Ok, n the number of stream items ready, text_ok
\* whether the bytes decode.
ExtractStart ==
    /\ pc = "req"
    /\ extractions < MaxExtractions
    /\ extractions' = extractions + 1
    /\ \E kind \in {"Bytes", "String"}, enc_ok \in BOOLEAN,
          n \in 0..(Len(req_payload) + 1), text_ok \in BOOLEAN :
         LET cfg == from_req(app_data, data)
             m   == check_mimetype(cfg, content_type)
             t   == take(req_payload)
             b   == HttpMessageBody_new(content_length, t.out)
             l   == HttpMessageBody_limit(b.length, b.err, cfg.limit)
             r   == poll_loop(b.buf, b.stream, n, l.limit)
         IN
           /\ ext_kind' = kind
           /\ ext_cfg' = <<cfg>>
           /\ mime_check' = m
           /\ IF EarlyError(m, kind, enc_ok) # <<>>
              THEN /\ ext_out' = ReadyErr(EarlyError(m, kind, enc_ok)[1])
                   /\ UNCHANGED <<pc, req_payload, limit, length, err, buf,
                                  stream, limit_set, polled, stream_polled,
                                  output, taken>>
              ELSE /\ taken' = Append(taken, t.out)
                   /\ req_payload' = t.left
                   /\ limit' = l.limit
                   /\ length' = b.length
                   /\ limit_set' = TRUE
                   /\ polled' = TRUE
                   /\ IF l.err # <<>>
                      THEN /\ err' = <<>>
                           /\ output' = ReadyErr(l.err[1])
                           /\ buf' = b.buf
                           /\ stream' = b.stream
                           /\ stream_polled' = FALSE
                           /\ pc' = "req"
                           /\ ext_out' = output'
                      ELSE /\ err' = <<>>
                           /\ output' = r.out
                           /\ buf' = r.buf
                           /\ stream' = r.stream
                           /\ stream_polled' = TRUE
                           /\ pc' = IF r.out.kind = "Pending" THEN "fut" ELSE "req"
                           /\ ext_out' = Extracted(kind, r.out, text_ok)
    /\ UNCHANGED <<content_length, body0, content_type, app_data, data>>
    /\ UNCHANGED <<codec_vars, service_vars, factory_vars>>

\* a later poll of the same future: it polls the HttpMessageBody again
ExtractPoll ==
    /\ pc = "fut"
    /\ \E n \in 0..(Len(stream) + 1), text_ok \in BOOLEAN :
         LET r == poll_loop(buf, stream, n, limit) IN
           /\ output' = r.out
           /\ buf' = r.buf
           /\ stream' = r.stream
           /\ pc' = IF r.out.kind = "Pending" THEN "fut" ELSE "req"
           /\ ext_out' = Extracted(ext_kind, r.out, text_ok)
    /\ UNCHANGED <<content_length, req_payload, body0, limit, length, err,
                   limit_set, polled, stream_polled>>
    /\ UNCHANGED <<content_type, app_data, data, extractions, ext_kind,
                   ext_cfg, mime_check, taken>>
    /\ UNCHANGED <<codec_vars, service_vars, factory_vars>>

\* payload streams of the requests handed to the extractors
ExtractStreams ==
    {StreamOf(k) : k \in UNION {[1..n -> {1, 4, 262144, -1}] : n \in 0..1}}

InitExtract ==
    /\ pc = "req"
    /\ content_length \in {<<>>, << <<"5">> >>, << <<"6">> >>}
    /\ body0 \in ExtractStreams
    /\ req_payload = body0
    /\ limit = 0
    /\ length = <<>>
    /\ err = <<>>
    /\ buf = <<>>
    /\ stream = <<>>
    /\ limit_set = FALSE
    /\ polled = FALSE
    /\ stream_polled = FALSE
    /\ output = Pending
    /\ content_type \in {<<>>} \cup {<<v>> : v \in ContentTypeValues}
    /\ app_data \in {<<>>} \cup {<<c>> : c \in ConfigValues}
    /\ data \in {<<>>} \cup {<<c>> : c \in ConfigValues}
    /\ extractions = 0
    /\ ext_kind = "-"
    /\ ext_cfg = <<>>
    /\ mime_check = "-"
    /\ taken = <<>>
    /\ ext_out = NoOutput

NextExtract ==
    \/ PayloadFromRequest
    \/ ExtractStart
    \/ ExtractPoll

ExtractInit == InitExtract /\ IdleCodec /\ IdleService /\ IdleFactory

SpecExtract == ExtractInit /\ [][NextExtract]_vars

----------------------------------------------------------------------------
(* H1ServiceHandler::call (service.rs:499-518)                             *)

\* most connections handed to H1ServiceHandler::call
MaxConns == 2

\* longest stream of frames read by OneRequestService
MaxFrames == 2

\* call with the two callbacks in the other order
H1ServiceHandler_call_ExtFirst(oc, oce) ==
    (IF oce THEN <<"on_connect_ext">> ELSE <<>>)
      \o (IF oc THEN <<"on_connect">> ELSE <<>>)
      \o <<"Dispatcher::new">>

\* what call does for one connection, in order
H1ServiceHandler_call(oc, oce) ==
    (IF oc THEN <<"on_connect">> ELSE <<>>)
      \o (IF oce THEN <<"on_connect_ext">> ELSE <<>>)
      \o <<"Dispatcher::new">>

HandlerCall ==
    /\ Len(conns) < MaxConns
    /\ conns' = Append(conns, H1ServiceHandler_call(on_connect, on_connect_ext))
    /\ UNCHANGED <<on_connect, on_connect_ext, or_pc, or_io, or_io0, or_out>>
    /\ UNCHANGED <<codec_vars, body_vars, extract_vars, factory_vars>>

----------------------------------------------------------------------------
(* OneRequestService::call (service.rs:568-580)                            *)

\* what framed.next() yields: a request head, or a ParseError of the codec.
\* (A Codec built by Codec::new has no payload decoder, so its first item
\* is never a Message::Chunk.)
Frames == {"head", "Header", "TooLarge"}

\* the match that passes every failure off as an incomplete request
OneRequest_result_AlwaysIncomplete(item) ==
    IF item # <<>> /\ item[1] = "head"
    THEN [kind |-> "Ok", err |-> "-"]
    ELSE [kind |-> "Err", err |-> "Incomplete"]

\* the match on framed.next().await; item is <<>> for None
OneRequest_result(item) ==
    IF item = <<>> THEN [kind |-> "Err", err |-> "Incomplete"]
    ELSE IF item[1] = "head" THEN [kind |-> "Ok", err |-> "-"]
    ELSE [kind |-> "Err", err |-> item[1]]

\* call builds the Framed and the future; nothing is read yet
OneRequestCall ==
    /\ or_pc = "idle"
    /\ or_pc' = "called"
    /\ UNCHANGED <<on_connect, on_connect_ext, conns, or_io, or_io0, or_out>>
    /\ UNCHANGED <<codec_vars, body_vars, extract_vars, factory_vars>>

\* one poll of the future: framed.next() is Pending or yields its next item
OneRequestPoll ==
    /\ or_pc = "called"
    /\ \E ready \in BOOLEAN :
         IF ~ready
         THEN /\ or_out' = [kind |-> "Pending", err |-> "-"]
              /\ UNCHANGED <<or_pc, or_io>>
         ELSE /\ or_out' = OneRequest_result(IF or_io = <<>> THEN <<>>
                                             ELSE <<Head(or_io)>>)
              /\ or_io' = IF or_io = <<>> THEN <<>> ELSE Tail(or_io)
              /\ or_pc' = "done"
    /\ UNCHANGED <<on_connect, on_connect_ext, conns, or_io0>>
    /\ UNCHANGED <<codec_vars, body_vars, extract_vars, factory_vars>>

InitService ==
    /\ on_connect \in BOOLEAN
    /\ on_connect_ext \in BOOLEAN
    /\ conns = <<>>
    /\ or_pc = "idle"
    /\ or_io0 \in UNION {[1..n -> Frames] : n \in 0..MaxFrames}
    /\ or_io = or_io0
    /\ or_out = [kind |-> "-", err |-> "-"]

NextService ==
    \/ HandlerCall
    \/ OneRequestCall
    \/ OneRequestPoll

ServiceInit ==
    InitService /\ IdleCodec /\ IdleBody /\ IdleExtract /\ IdleFactory

SpecService == ServiceInit /\ [][NextService]_vars

----------------------------------------------------------------------------
(* H1Service::new_service and <H1ServiceResponse as Future>::poll          *)
(* (service.rs:292-304, 353-391)                                           *)

\* most polls of one H1ServiceResponse
MaxPolls == 3

\* what a poll of an init future returns
PollOutcomes == {"Pending", "Ok", "Err"}

\* what a poll of an init future returns when the future has returned Ready
\* before: the Future contract leaves it to the future, which may panic
RepollOutcomes == PollOutcomes \cup {"panic"}

\* H1ServiceResponse_poll that goes on to the main future while the upgrade
\* future is pending
H1ServiceResponse_poll_SkipsPendingUpgrade(st, ex, up, mn) ==
    LET pollEx == st.fut_ex
        exOk   == ~pollEx \/ ex = "Ok"
        st1    == IF pollEx /\ ex = "Ok"
                  THEN [st EXCEPT !.expect = TRUE, !.fut_ex = FALSE]
                  ELSE st
        pollUp == exOk /\ st1.fut_upg
        upOk   == exOk /\ (~st1.fut_upg \/ up \in {"Ok", "Pending"})
        st2    == IF pollUp /\ up = "Ok"
                  THEN [st1 EXCEPT !.upgrade = TRUE, !.fut_ex = FALSE]
                  ELSE st1
    IN  [st     |-> st2,
         polled |-> (IF pollEx THEN <<"expect">> ELSE <<>>)
                      \o (IF pollUp THEN <<"upgrade">> ELSE <<>>)
                      \o (IF upOk THEN <<"main">> ELSE <<>>),
         out    |-> IF ~exOk THEN ex ELSE IF ~upOk THEN up ELSE mn]

\* one call of poll on the response in state st; ex, up and mn are what the
\* expect, upgrade and main init futures return if this call polls them.
\* Line 371 clears fut_ex, so fut_upg stays Some after the upgrade future
\* has returned Ready.
H1ServiceResponse_poll(st, ex, up, mn) ==
    LET pollEx == st.fut_ex
        exOk   == ~pollEx \/ ex = "Ok"
        st1    == IF pollEx /\ ex = "Ok"
                  THEN [st EXCEPT !.expect = TRUE, !.fut_ex = FALSE]
                  ELSE st
        pollUp == exOk /\ st1.fut_upg
        upOk   == exOk /\ (~st1.fut_upg \/ up = "Ok")
        st2    == IF pollUp /\ up = "Ok"
                  THEN [st1 EXCEPT !.upgrade = TRUE, !.fut_ex = FALSE]
                  ELSE st1
    IN  [st     |-> st2,
         polled |-> (IF pollEx THEN <<"expect">> ELSE <<>>)
                      \o (IF pollUp THEN <<"upgrade">> ELSE <<>>)
                      \o (IF upOk THEN <<"main">> ELSE <<>>),
         out    |-> IF ~exOk THEN ex ELSE IF ~upOk THEN up ELSE mn]

\* the elements of a sequence
Range(q) == {q[i] : i \in 1..Len(q)}

\* q followed by the elements of r that are not in q, in the order of r
AppendNew(q, r) ==
    q \o SelectSeq(r, LAMBDA f : f \notin Range(q))

new_service ==
    /\ resp_pc = "factory"
    /\ resp_pc' = "polling"
    /\ resp' = [fut_ex |-> TRUE, fut_upg |-> upgrade_factory,
                expect |-> FALSE, upgrade |-> FALSE]
    /\ UNCHANGED <<upgrade_factory, resp_polls, first_polls, resolved,
                   repolled, resp_out, handler, pr>>
    /\ UNCHANGED <<codec_vars, body_vars, extract_vars, service_vars>>

\* one poll of the response by its executor; a resolved response is not
\* polled again
ResponsePoll ==
    /\ resp_pc = "polling"
    /\ resp_polls < MaxPolls
    /\ \E ex \in PollOutcomes, mn \in PollOutcomes,
          up \in IF resolved["upgrade"] = "-" THEN PollOutcomes
                 ELSE RepollOutcomes :
         LET p   == H1ServiceResponse_poll(resp, ex, up, mn)
             got == [f \in InitFuts |->
                       IF f = "expect" THEN ex
                       ELSE IF f = "upgrade" THEN up ELSE mn]
         IN  /\ resp' = p.st
             /\ resp_out' = p.out
             /\ first_polls' = AppendNew(first_polls, p.polled)
             /\ repolled' = repolled \cup
                  {f \in Range(p.polled) : resolved[f] # "-"}
             /\ resolved' = [f \in InitFuts |->
                  IF f \in Range(p.polled) /\ got[f] \in {"Ok", "Err"}
                     /\ resolved[f] # "Err"
                  THEN got[f] ELSE resolved[f]]
             /\ resp_pc' = IF p.out = "Pending" THEN "polling" ELSE "resolved"
             /\ handler' = IF p.out = "Ok"
                           THEN <<[upgrade |-> p.st.upgrade]>>
                           ELSE <<>>
    /\ resp_polls' = resp_polls + 1
    /\ UNCHANGED <<upgrade_factory, pr>>
    /\ UNCHANGED <<codec_vars, body_vars, extract_vars, service_vars>>

----------------------------------------------------------------------------
(* H1ServiceHandler::poll_ready (service.rs:457-497)                       *)

\* what poll_ready of an inner service returns
ReadyOutcomes == {"Ready", "Pending", "Err"}

\* poll_ready that returns Pending at the first service that is not ready
poll_ready_ShortCircuits(upg, e, s, u) ==
    LET rest == [upg |-> upg, e |-> e, s |-> s, u |-> u] IN
    IF e # "Ready"
    THEN rest @@ [polled |-> <<"expect">>, out |-> e]
    ELSE IF s # "Ready"
    THEN rest @@ [polled |-> <<"expect", "srv">>, out |-> s]
    ELSE IF upg
    THEN rest @@ [polled |-> <<"expect", "srv", "upgrade">>, out |-> u]
    ELSE rest @@ [polled |-> <<"expect", "srv">>, out |-> "Ready"]

\* one call of poll_ready on a handler whose upgrade is Some iff upg; e, s
\* and u are what the expect, main and upgrade services return if polled
poll_ready(upg, e, s, u) ==
    LET rest == [upg |-> upg, e |-> e, s |-> s, u |-> u] IN
    IF e = "Err"
    THEN rest @@ [polled |-> <<"expect">>, out |-> "Err"]
    ELSE IF s = "Err"
    THEN rest @@ [polled |-> <<"expect", "srv">>, out |-> "Err"]
    ELSE IF upg
    THEN rest @@ [polled |-> <<"expect", "srv", "upgrade">>,
                  out |-> IF u = "Err" THEN "Err"
                          ELSE IF u = "Ready" /\ s = "Ready" /\ e = "Ready"
                          THEN "Ready" ELSE "Pending"]
    ELSE rest @@ [polled |-> <<"expect", "srv">>,
                  out |-> IF s = "Ready" /\ e = "Ready"
                          THEN "Ready" ELSE "Pending"]

HandlerPollReady ==
    /\ handler # <<>>
    /\ \E e \in ReadyOutcomes, s \in ReadyOutcomes, u \in ReadyOutcomes :
         pr' = poll_ready(handler[1].upgrade, e, s, u)
    /\ UNCHANGED <<upgrade_factory, resp_pc, resp, resp_polls, first_polls,
                   resolved, repolled, resp_out, handler>>
    /\ UNCHANGED <<codec_vars, body_vars, extract_vars, service_vars>>

InitFactory ==
    /\ upgrade_factory \in BOOLEAN
    /\ resp_pc = "factory"
    /\ resp = [fut_ex |-> FALSE, fut_upg |-> FALSE, expect |-> FALSE,
               upgrade |-> FALSE]
    /\ resp_polls = 0
    /\ first_polls = <<>>
    /\ resolved = [f \in InitFuts |-> "-"]
    /\ repolled = {}
    /\ resp_out = "-"
    /\ handler = <<>>
    /\ pr = NoPollReady

NextFactory ==
    \/ new_service
    \/ ResponsePoll
    \/ HandlerPollReady

FactoryInit ==
    InitFactory /\ IdleCodec /\ IdleBody /\ IdleExtract /\ IdleService

SpecFactory == FactoryInit /\ [][NextFactory]_vars

----------------------------------------------------------------------------
(* Claims about the codec, checked under SpecCodec                         *)

DecodedHead == last.op = "decode" /\ last.res = "head"

\* C1: after encode of a message head the resolved connection type is
\* KeepAlive only if the head asks for KeepAlive and the codec was built
\* with keep-alive enabled; a KeepAlive head with keep-alive disabled
\* resolves to Close, and a Close head resolves to Close whatever the
\* configuration.
C1_EncodeHonorsKeepAliveConfig ==
    last.op = "encode" =>
      /\ keepalive =>
           last.rctype = "KeepAlive" /\ config.keep_alive_enabled
      /\ (last.rctype = "KeepAlive" /\ ~config.keep_alive_enabled) =>
           ctype = "Close"
      /\ last.rctype = "Close" => ctype = "Close"

C1_Witness ==
    /\ last.op = "encode"
    /\ last.rctype = "KeepAlive"
    /\ ~config.keep_alive_enabled
    /\ ctype = "Close"

\* C2: after decode yields a head whose Connection header resolves to
\* Close, the codec's connection type is Close and keepalive() is false,
\* also when the preceding request resolved to KeepAlive.
C2_PeerCloseWins ==
    (DecodedHead /\ last.hctype = <<"Close">>) =>
      (ctype = "Close" /\ ~keepalive)

C2_Witness ==
    /\ DecodedHead
    /\ last.hctype = <<"Close">>
    /\ last.pre_ctype = "KeepAlive"
    /\ config.keep_alive_enabled
    /\ ~keepalive

\* C3: Upgrade wins: encoding an Upgrade head sets the connection type to
\* Upgrade with keep-alive enabled or not, and decoding an Upgrade head sets
\* it to Upgrade whatever it was, so upgrade() holds and keepalive() does
\* not.
C3_UpgradeWins ==
    /\ (last.op = "encode" /\ last.rctype = "Upgrade") =>
         (upgrade /\ ~keepalive)
    /\ (DecodedHead /\ last.hctype = <<"Upgrade">>) =>
         (upgrade /\ ~keepalive)

C3_Witness ==
    /\ DecodedHead
    /\ last.hctype = <<"Upgrade">>
    /\ last.pre_ctype = "KeepAlive"
    /\ upgrade

\* C4: after decoding a head with no Connection header the connection type
\* is the version-derived default: Close for HTTP/1.0, KeepAlive for
\* HTTP/1.1 with keep-alive enabled.
C4_VersionDefaultOnNoHeader ==
    (DecodedHead /\ last.hctype = <<>>) =>
      /\ last.hversion = "HTTP_10" => ctype = "Close"
      /\ (last.hversion = "HTTP_11" /\ config.keep_alive_enabled) =>
           ctype = "KeepAlive"

\* C5: a head decoded while the most recently encoded request is a HEAD
\* installs no payload decoder whatever PayloadType the message decoder
\* returned, and no body chunk is decoded for such a response.
C5_HeadResponseHasNoPayload ==
    /\ (DecodedHead /\ sent_method = "HEAD") => payload = <<>>
    /\ (last.op = "payload_decode" /\ last.res = "chunk") => ~resp_to_head

C5_Witness ==
    /\ DecodedHead
    /\ sent_method = "HEAD"
    /\ last.ptype = "Stream"
    /\ payload = <<>>

\* C6: ClientCodec::decode called while a payload decoder is installed fails
\* with an assertion and decodes no head.
C6_DecodeRefusedWhilePayloadInstalled ==
    (last.op = "decode" /\ last.pre_payload # <<>>) => last.res = "panic"

\* C7: once a decoded message resolved the connection type to Upgrade,
\* every further ClientCodec::decode call is refused.
C7_DecodeRefusedAfterUpgrade ==
    (last.op = "decode" /\ last.pre_upgraded) => last.res = "panic"

----------------------------------------------------------------------------
(* Claims about HttpMessageBody, checked under SpecBody                    *)

\* the Content-Length the request declares, <<>> if absent or unparsable
Declared ==
    IF content_length = <<>> \/ to_str(content_length[1]) = <<>>
    THEN <<>>
    ELSE parse_usize(content_length[1])

NoStreamError(items) == \A i \in 1..Len(items) : items[i].ok

\* the bytes of the first k chunks of a stream, in stream order
RECURSIVE BytesOf(_, _)
BytesOf(items, k) ==
    IF k = 0 THEN <<>>
    ELSE LET c == items[k] IN
           IF c.len = 0 THEN BytesOf(items, k - 1)
           ELSE Append(BytesOf(items, k - 1), [id |-> c.id, len |-> c.len])

\* the size of the first k chunks of a stream
RECURSIVE SizeOf(_, _)
SizeOf(items, k) ==
    IF k = 0 THEN 0 ELSE SizeOf(items, k - 1) + items[k].len

\* C8: when the declared Content-Length exceeds the configured limit (the
\* default, or the value passed to limit), the first poll resolves to
\* PayloadError::Overflow and the payload stream has not been polled, so no
\* chunk has left it.
C8_DeclaredOverLimitOverflows ==
    (polled /\ Declared # <<>> /\ Declared[1] > limit) =>
      /\ pc = "done"
      /\ output = ReadyErr("Overflow")
      /\ ~stream_polled
      /\ stream = body0

C8_Witness ==
    /\ polled
    /\ limit_set
    /\ Declared # <<>>
    /\ Declared[1] > limit
    /\ Declared[1] <= DEFAULT_CONFIG_LIMIT
    /\ body0 # <<>>
    /\ output = ReadyErr("Overflow")

\* C9: after limit(n), a request whose declared Content-Length is at most n
\* and whose stream yields at most n bytes without error resolves to Ok with
\* the complete body, also for n above the default.
C9_LimitIsTheMaximum ==
    (/\ pc = "done"
     /\ limit_set
     /\ Declared # <<>>
     /\ Declared[1] <= limit
     /\ NoStreamError(body0)
     /\ SizeOf(body0, Len(body0)) <= limit) =>
      output = ReadyOk(BytesOf(body0, Len(body0)))

\* C10: with no Content-Length header and a stream that yields no error,
\* the future resolves to Ok(all chunks concatenated in stream order) when
\* their total size is at most the limit, and to PayloadError::Overflow at
\* the first chunk that would take the accumulated size over the limit.
C10_NoLengthAccumulatesUpToLimit ==
    (pc = "done" /\ content_length = <<>> /\ NoStreamError(body0)) =>
      IF SizeOf(body0, Len(body0)) <= limit
      THEN output = ReadyOk(BytesOf(body0, Len(body0)))
      ELSE /\ output = ReadyErr("Overflow")
           /\ LET k == Len(body0) - Len(stream) IN
                /\ k >= 1
                /\ SizeOf(body0, k) > limit
                /\ SizeOf(body0, k - 1) <= limit
                /\ buf = BytesOf(body0, k - 1)

C10_Witness ==
    /\ pc = "done"
    /\ content_length = <<>>
    /\ NoStreamError(body0)
    /\ Len(body0) >= 2
    /\ SizeOf(body0, Len(body0)) = limit
    /\ output = ReadyOk(BytesOf(body0, Len(body0)))
    /\ Len(output.body) >= 2

----------------------------------------------------------------------------
(* Further claims about the codec, checked under SpecCodec                 *)

\* C17: the STREAM flag is set only while a streamed payload is in flight,
\* so message_type() is Stream or Payload only when a payload decoder is
\* installed, and is None after a head without a body has been decoded.
C17_MessageTypeFollowsPayload ==
    /\ message_type \in {"Stream", "Payload"} => payload # <<>>
    /\ (DecodedHead /\ last.ptype = "None") => message_type = "None"

\* C18: a ClientPayloadCodec::decode call that yields a chunk or asks for
\* more bytes leaves the payload decoder installed, the decoder is removed
\* exactly when the call yields end-of-body, and end-of-body is yielded at
\* most once per decoded head.
C18_PayloadDecoderLivesUntilEof ==
    /\ (last.op = "payload_decode" /\ last.res \in {"chunk", "none"}) =>
         (payload # <<>> /\ payload = last.pre_payload)
    /\ (last.op = "payload_decode" /\ last.res # "panic") =>
         (payload = <<>> <=> last.res = "eof")
    /\ eofs <= 1

C18_Witness ==
    /\ last.op = "payload_decode"
    /\ last.res = "eof"
    /\ last.pre_payload # <<>>
    /\ payload = <<>>
    /\ eofs = 1

\* C19: a ClientCodec::decode call that returns Ok(None) leaves the
\* connection type, the flags and the payload decoder as they were.
C19_IncompleteHeadChangesNothing ==
    (last.op = "decode" /\ last.res = "none") =>
      /\ ctype = last.pre_ctype
      /\ flags = last.pre_flags
      /\ payload = last.pre_payload

C19_Witness ==
    /\ last.op = "decode"
    /\ last.res = "none"
    /\ last.pre_payload # <<>>
    /\ last.pre_ctype = "KeepAlive"
    /\ payload = last.pre_payload

\* C20: decoding a head whose Connection header is keep-alive leaves the
\* connection type at the value it had before the call.
C20_PeerKeepAliveIgnored ==
    (DecodedHead /\ last.hctype = <<"KeepAlive">>) => ctype = last.pre_ctype

C20_Witness ==
    /\ DecodedHead
    /\ last.hctype = <<"KeepAlive">>
    /\ last.pre_ctype = "Close"
    /\ config.keep_alive_enabled
    /\ ctype = "Close"

----------------------------------------------------------------------------
(* Further claims about HttpMessageBody, checked under SpecBody            *)

\* Content-Length values that are not the text of a non-negative integer
NotALength ==
    { <<"x", "x", "x", "x">>, <<"-", "1">>, <<"xFF">>, <<>> }

\* C11: when the Content-Length header is not valid text or not a
\* non-negative integer, the first poll resolves to
\* PayloadError::UnknownLength, whatever limit was configured, and the
\* payload stream has not been polled.
C11_BadLengthIsUnknownLength ==
    (polled /\ content_length # <<>> /\ content_length[1] \in NotALength) =>
      /\ pc = "done"
      /\ output = ReadyErr("UnknownLength")
      /\ ~stream_polled
      /\ stream = body0

C11_Witness ==
    /\ polled
    /\ content_length = << <<"-", "1">> >>
    /\ limit_set
    /\ limit = 5
    /\ body0 # <<>>
    /\ output = ReadyErr("UnknownLength")

----------------------------------------------------------------------------
(* Claims about the extractors, checked under SpecExtract                  *)

\* the Content-Type values that name the mime type mt
NamesMime(mt) ==
    IF mt = "application/json"
    THEN {"application/json", "Application/JSON"}
    ELSE {mt}

\* C13: check_mimetype returns Ok for every request when no mime type is
\* configured; with a mime type configured it returns Ok exactly when the
\* request's Content-Type parses to that mime type, and an error when the
\* request has no Content-Type, another one or an unparsable one.
C13_CheckMimetype ==
    mime_check # "-" =>
      LET cfg == ext_cfg[1] IN
        /\ cfg.mimetype = <<>> => mime_check = "Ok"
        /\ cfg.mimetype # <<>> =>
             (mime_check = "Ok" <=>
                (content_type # <<>>
                   /\ content_type[1] \in NamesMime(cfg.mimetype[1])))

C13_Witness ==
    /\ mime_check = "Ok"
    /\ ext_cfg[1].mimetype = <<"application/json">>
    /\ content_type = <<"Application/JSON">>

\* the configuration the lookup order of the claim gives
Registered ==
    IF app_data # <<>> THEN app_data[1]
    ELSE IF data # <<>> THEN data[1]
    ELSE [limit |-> 262144, mimetype |-> <<>>]

\* C14: the Bytes and String extractors use the bare PayloadConfig of the
\* app data if there is one, else the Data<PayloadConfig> if there is one,
\* else the default (limit 262,144, no mime type), and enforce it: its mime
\* type is checked and its limit is the limit of the body future.
C14_ConfigLookupOrder ==
    ext_kind \in {"Bytes", "String"} =>
      /\ ext_cfg = <<Registered>>
      /\ mime_check = check_mimetype(Registered, content_type)
      /\ mime_check # "Ok" => ext_out.kind = "Err"
      /\ (mime_check = "Ok" /\ polled) => limit = Registered.limit
      /\ ext_out.kind = "Ok" => BytesLen(ext_out.body) <= Registered.limit

C14_Witness ==
    /\ ext_kind = "Bytes"
    /\ app_data = <<>>
    /\ data = <<PayloadConfig_new(5)>>
    /\ limit = 5
    /\ ext_out = ReadyErr("Overflow")

\* the chunk ids of a stream
IdsOf(items) == {items[i].id : i \in 1..Len(items)}

\* C15: the request's payload is consumed at most once: after an extractor
\* has taken it the slot in the request is empty, and a later extraction
\* gets none of the chunks handed to an earlier one.
C15_PayloadTakenOnce ==
    /\ taken # <<>> => req_payload = <<>>
    /\ \A i, j \in 1..Len(taken) :
         i < j => (taken[j] = <<>> /\ IdsOf(taken[i]) \cap IdsOf(taken[j]) = {})

C15_Witness ==
    /\ Len(taken) = 2
    /\ taken[1] # <<>>
    /\ taken[2] = <<>>
    /\ ext_kind = "Bytes"
    /\ ext_out = ReadyOk(<<>>)

----------------------------------------------------------------------------
(* Claims about the codec's flags and errors, checked under SpecCodec      *)

\* C21: the HEAD flag is set exactly when the most recently encoded request
\* head had method HEAD; encoding a head sets or clears it by the method,
\* and no other operation (decode, payload decode, chunk or eof encode,
\* codec conversion) changes it.
C21_HeadFlagFollowsLastEncodedHead ==
    /\ (HEAD \in flags) <=> (sent_method = "HEAD")
    /\ last.op = "encode" => ((HEAD \in flags) <=> (last.method = "HEAD"))
    /\ last.op \notin {"new", "encode"} =>
         ((HEAD \in flags) <=> (HEAD \in last.pre_flags))

C21_Witness ==
    /\ last.op = "encode"
    /\ last.method = "GET"
    /\ HEAD \in last.pre_flags
    /\ HEAD \notin flags

\* C22: KEEPALIVE_ENABLED is in the flags exactly when the configuration
\* the codec was built from enables keep-alive, in every reachable state,
\* and no operation changes it.
C22_KeepAliveEnabledIsStatic ==
    /\ (KEEPALIVE_ENABLED \in flags) <=> config.keep_alive_enabled
    /\ last.op # "new" =>
         ((KEEPALIVE_ENABLED \in flags)
            <=> (KEEPALIVE_ENABLED \in last.pre_flags))

C22_Witness ==
    /\ config.keep_alive_enabled
    /\ KEEPALIVE_ENABLED \in flags
    /\ STREAM \in flags
    /\ HEAD \in flags
    /\ last.op = "into_message_codec"

\* C23: keepalive() is true only for a codec built with keep-alive enabled,
\* and a freshly built codec reports keepalive() false and upgrade() false.
C23_KeepaliveNeedsConfig ==
    /\ keepalive => config.keep_alive_enabled
    /\ last.op = "new" => (~keepalive /\ ~upgrade)

C23_Witness ==
    /\ keepalive
    /\ config.keep_alive_enabled
    /\ DecodedHead
    /\ last.hctype = <<"KeepAlive">>
    /\ last.pre_ctype = "KeepAlive"

\* C27: when the message decoder returns a ParseError, decode returns that
\* error and the connection type, the flags and the payload decoder are
\* what they were before the call.
C27_DecodeErrorChangesNothing ==
    (last.op = "decode" /\ last.res = "error") =>
      /\ last.rerr = last.derr
      /\ ctype = last.pre_ctype
      /\ flags = last.pre_flags
      /\ payload = last.pre_payload

C27_Witness ==
    /\ last.op = "decode"
    /\ last.res = "error"
    /\ last.rerr = "TooLarge"
    /\ ctype = "Upgrade"
    /\ STREAM \in flags
    /\ payload # <<>>

----------------------------------------------------------------------------
(* Claims about the services, checked under SpecService                    *)

\* the places of event e in the log c of one connection
Places(c, e) == {i \in 1..Len(c) : c[i] = e}

\* C12: for every accepted connection call invokes each configured
\* callback exactly once, on_connect before on_connect_ext, both before the
\* Dispatcher is built, and invokes no callback that is not configured.
C12_ConnectCallbacksOncePerConnection ==
    \A k \in 1..Len(conns) :
      LET c == conns[k] IN
        /\ Cardinality(Places(c, "on_connect")) = IF on_connect THEN 1 ELSE 0
        /\ Cardinality(Places(c, "on_connect_ext")) =
             IF on_connect_ext THEN 1 ELSE 0
        /\ Places(c, "Dispatcher::new") = {Len(c)}
        /\ \A i \in Places(c, "on_connect"), j \in Places(c, "on_connect_ext") :
             i < j

C12_Witness ==
    /\ on_connect
    /\ on_connect_ext
    /\ Len(conns) = 2
    /\ conns[2] = <<"on_connect", "on_connect_ext", "Dispatcher::new">>

\* C16: OneRequestService::call takes exactly one item from the stream and
\* resolves to Ok when it is a request head, to Err(the decode error) when
\* decoding fails, and to Err(ParseError::Incomplete) when the stream ends
\* first.
C16_OneRequestReadsOneMessage ==
    or_pc = "done" =>
      /\ or_io0 = <<>> =>
           (or_out = [kind |-> "Err", err |-> "Incomplete"] /\ or_io = <<>>)
      /\ or_io0 # <<>> =>
           /\ or_io = Tail(or_io0)
           /\ or_io0[1] = "head" => or_out = [kind |-> "Ok", err |-> "-"]
           /\ or_io0[1] # "head" =>
                or_out = [kind |-> "Err", err |-> or_io0[1]]

C16_Witness ==
    /\ or_pc = "done"
    /\ Len(or_io0) = 2
    /\ or_io0[1] = "TooLarge"
    /\ or_out = [kind |-> "Err", err |-> "TooLarge"]
    /\ Len(or_io) = 1

----------------------------------------------------------------------------
(* Claims about the service factory, checked under SpecFactory             *)

\* C24: no init future of an H1ServiceResponse (expect, upgrade, main) is
\* polled again after it has returned Ready.
C24_NoInitFutureRepolled ==
    repolled = {}

\* the init futures the factory has
Configured == IF upgrade_factory THEN InitFuts ELSE {"expect", "main"}

\* i is before j in the order of first polls
PolledBefore(i, j) ==
    \E a, b \in 1..Len(first_polls) :
      a < b /\ first_polls[a] = i /\ first_polls[b] = j

\* C25: the response resolves to Ok(handler) only when every configured
\* init future has resolved Ok; the futures are first polled in the order
\* expect, upgrade, main, each only after the one before it resolved Ok; an
\* init future that resolves to an error makes the response resolve to Err;
\* the handler has an upgrade service exactly when an upgrade factory was
\* configured.
C25_ResponseResolvesAfterAllInitFutures ==
    /\ resp_out = "Ok" => \A f \in Configured : resolved[f] = "Ok"
    /\ Range(first_polls) \subseteq Configured
    /\ \A f \in Range(first_polls) :
         /\ f # "expect" => resolved["expect"] = "Ok"
         /\ (f = "main" /\ upgrade_factory) =>
              (resolved["upgrade"] = "Ok" \/ "upgrade" \in repolled)
    /\ \A i, j \in InitFuts :
         PolledBefore(i, j) =>
           <<i, j>> \in {<<"expect", "upgrade">>, <<"expect", "main">>,
                         <<"upgrade", "main">>}
    /\ (\E f \in InitFuts : resolved[f] = "Err") => resp_out = "Err"
    /\ (resp_out = "Ok") <=> (handler # <<>>)
    /\ handler # <<>> => (handler[1].upgrade <=> upgrade_factory)

C25_Witness ==
    /\ upgrade_factory
    /\ resp_out = "Ok"
    /\ handler = <<[upgrade |-> TRUE]>>
    /\ first_polls = <<"expect", "upgrade", "main">>
    /\ resp_polls = 3

\* the services the handler has, in the order poll_ready polls them
Services(upg) ==
    IF upg THEN <<"expect", "srv", "upgrade">> ELSE <<"expect", "srv">>

\* what service x reported in the poll_ready call c, had it been polled
Reported(c, x) ==
    IF x = "expect" THEN c.e ELSE IF x = "srv" THEN c.s ELSE c.u

\* C26: poll_ready returns Ready(Ok) exactly when every service the handler
\* has reported ready in that call; it returns Err at the first service
\* that reports an error, without polling the ones after it; and when no
\* service errors it polls every service, also after a pending one.
C26_PollReadyPollsEveryService ==
    pr.out # "-" =>
      LET svcs == Services(pr.upg)
          errs == {i \in 1..Len(svcs) : Reported(pr, svcs[i]) = "Err"
                     /\ \A k \in 1..(i - 1) : Reported(pr, svcs[k]) # "Err"}
      IN  /\ (pr.out = "Ready") <=>
               \A i \in 1..Len(svcs) : Reported(pr, svcs[i]) = "Ready"
          /\ (pr.out = "Err") <=> (errs # {})
          /\ \A i \in errs : pr.polled = SubSeq(svcs, 1, i)
          /\ errs = {} => pr.polled = svcs

C26_Witness ==
    /\ pr.upg
    /\ pr.e = "Pending"
    /\ pr.s = "Ready"
    /\ pr.u = "Pending"
    /\ pr.polled = <<"expect", "srv", "upgrade">>
    /\ pr.out = "Pending"

----------------------------------------------------------------------------
(* Claims about the extractors' error order, checked under SpecExtract     *)

\* C28: when check_mimetype fails for a Bytes or String extraction, the
\* extractor returns that error, and it has neither taken the request's
\* payload nor polled it: the payload is what it was before the extraction.
C28_MimetypeCheckedBeforeBody ==
    (ext_kind \in {"Bytes", "String"} /\ mime_check \notin {"-", "Ok"}) =>
      /\ ext_out = ReadyErr(mime_check)
      /\ Len(taken) < extractions
      /\ req_payload = (IF taken = <<>> THEN body0 ELSE take(body0).left)
      /\ ~polled
      /\ ~stream_polled
      /\ stream = <<>>

C28_Witness ==
    /\ ext_kind = "String"
    /\ mime_check \notin {"-", "Ok"}
    /\ ext_out = ReadyErr(mime_check)
    /\ extractions = 1
    /\ req_payload = body0
    /\ body0 # <<>>

====
